---- MODULE Spec2Model ----
(***************************************************************************)
(* Model of the agent orchestration core of universal_ai_dev_platform     *)
(* (core/orchestration/agent_orchestrator.py): workflow validation, agent *)
(* selection, phased planning, parallel dispatch and result assembly.      *)
(***************************************************************************)
EXTENDS Integers, Sequences, FiniteSets, TLC

VARIABLES
    spec,             \* the WorkflowSpecification passed to the call
    pc,               \* position of the call / of the function under check
    selected,         \* list returned by _select_optimal_agents
    plan,             \* execution_plan["phases"]
    phase_idx,        \* index of the phase being dispatched (0: none)
    tasks,            \* phase_tasks of the phase being gathered
    executions,       \* executions list of _execute_tasks_parallel
    now,              \* datetime.now(), a logical clock
    active_workflows, \* self.active_workflows (its keys)
    result,           \* the OrchestrationResult returned
    calls,            \* history: which steps of the call have run
    raised,           \* history: the exception raised inside the call, if any
    raised_slots,     \* history: the <<phase, index>> slots whose invocation raised
    estimated_duration, \* execution_plan["estimated_duration"]
    workflow_results, \* the dict returned by _aggregate_results
    workflow_calls,   \* concurrent orchestrate_workflow calls on one orchestrator
    is_running,       \* HealthMonitor.is_running
    monitor_tasks,    \* start_monitoring calls and the three loops of each
    health_checks,    \* HealthMonitor.health_checks, name -> HealthCheck
    alerts,           \* ids of HealthMonitor.alerts, in creation order
    check_history     \* per health check, what each _run_health_checks pass did

vars == <<spec, pc, selected, plan, phase_idx, tasks, executions, now,
          active_workflows, result, calls, raised, raised_slots,
          estimated_duration, workflow_results, workflow_calls,
          is_running, monitor_tasks, health_checks, alerts, check_history>>

\* a HealthMonitor that is not part of the behaviour
MonitorIdle ==
    /\ is_running = FALSE
    /\ monitor_tasks = << >>
    /\ health_checks = << >>
    /\ alerts = << >>
    /\ check_history = << >>

MonitorUnchanged ==
    UNCHANGED <<is_running, monitor_tasks, health_checks, alerts, check_history>>

-----------------------------------------------------------------------------
(* Bounds of the model *)

\* longest required / preferred list drawn for the selection check
MaxListLen == 2
\* largest in-range max_agents drawn for the selection check
MaxAgentsArg == 4
\* longest required / preferred list drawn for a whole orchestrate_workflow call
MaxListLenCall == 1
\* largest in-range max_agents drawn for a whole orchestrate_workflow call
MaxAgentsCall == 4
\* most invocations that raise in one workflow run
MaxFaults == 1
\* the deadline a caller supplies as spec.timeout, in clock ticks
CallTimeout == 1
\* longest list of executions aggregated on its own
MaxExecs == 3
\* calls made on one orchestrator, and the clock ticks they are made in
MaxCalls == 3
MaxTicks == 3
\* _run_health_checks passes made, and the seconds they are made in
MaxPasses == 4
MaxClock == 2
\* start_monitoring calls made on one HealthMonitor
MaxStarts == 2
\* longest selected list planned on its own
MaxPlanLen == 5

-----------------------------------------------------------------------------
(* Configuration: AgentOrchestrator._default_config *)

max_agents_per_workflow == 20

available_agents ==
    << "system-architect", "backend-developer", "frontend-developer",
       "database-specialist", "security-auditor", "performance-optimizer",
       "devops-engineer", "test-strategist", "code-quality-analyzer",
       "ui-ux-designer", "api-designer", "documentation-specialist",
       "debugger", "general-purpose", "llm-ai-agents-and-eng-research",
       "meta-agent", "work-completion-summary" >>

\* `x in list`
Contains(list, x) == \E i \in 1..Len(list) : list[i] = x

Max(a, b) == IF a >= b THEN a ELSE b
Min(a, b) == IF a <= b THEN a ELSE b

SeqsUpTo(S, n) == UNION { [1..k -> S] : k \in 0..n }

-----------------------------------------------------------------------------
(* Agent selection *)

GenericAgents == << "general-purpose", "backend-developer", "frontend-developer" >>

_get_workflow_appropriate_agents_nofallback(s) ==
    CASE s.name = "full-stack-setup" ->
           << "system-architect", "backend-developer", "frontend-developer",
              "database-specialist", "devops-engineer", "security-auditor" >>
      [] s.name = "feature-development" ->
           << "backend-developer", "frontend-developer", "test-strategist",
              "code-quality-analyzer", "ui-ux-designer" >>
      [] s.name = "bug-investigation" ->
           << "debugger", "code-quality-analyzer", "test-strategist",
              "general-purpose" >>
      [] s.name = "performance-optimization" ->
           << "performance-optimizer", "database-specialist", "backend-developer",
              "frontend-developer", "devops-engineer" >>
      [] s.name = "security-hardening" ->
           << "security-auditor", "backend-developer", "devops-engineer",
              "code-quality-analyzer" >>
      [] OTHER -> << >>

_get_workflow_appropriate_agents(s) ==
    CASE s.name = "full-stack-setup" ->
           << "system-architect", "backend-developer", "frontend-developer",
              "database-specialist", "devops-engineer", "security-auditor" >>
      [] s.name = "feature-development" ->
           << "backend-developer", "frontend-developer", "test-strategist",
              "code-quality-analyzer", "ui-ux-designer" >>
      [] s.name = "bug-investigation" ->
           << "debugger", "code-quality-analyzer", "test-strategist",
              "general-purpose" >>
      [] s.name = "performance-optimization" ->
           << "performance-optimizer", "database-specialist", "backend-developer",
              "frontend-developer", "devops-engineer" >>
      [] s.name = "security-hardening" ->
           << "security-auditor", "backend-developer", "devops-engineer",
              "code-quality-analyzer" >>
      [] OTHER -> GenericAgents

\* the loop body over spec.preferred_agents with the limit test `<=`
RECURSIVE AddPreferredOffByOne(_, _, _)
AddPreferredOffByOne(sel, pref, limit) ==
    IF pref = << >> THEN sel
    ELSE LET agent == Head(pref)
             next  == IF /\ Contains(available_agents, agent)
                         /\ Len(sel) <= limit
                         /\ ~Contains(sel, agent)
                      THEN Append(sel, agent) ELSE sel
         IN  AddPreferredOffByOne(next, Tail(pref), limit)

\* preferred agents added without looking them up in the registry
RECURSIVE AddPreferredUnchecked(_, _, _)
AddPreferredUnchecked(sel, pref, limit) ==
    IF pref = << >> THEN sel
    ELSE LET agent == Head(pref)
             next  == IF Len(sel) < limit /\ ~Contains(sel, agent)
                      THEN Append(sel, agent) ELSE sel
         IN  AddPreferredUnchecked(next, Tail(pref), limit)

\* for agent in spec.preferred_agents: ... (lines 328-331)
RECURSIVE AddPreferred(_, _, _)
AddPreferred(sel, pref, limit) ==
    IF pref = << >> THEN sel
    ELSE LET agent == Head(pref)
             next  == IF /\ Contains(available_agents, agent)
                         /\ Len(sel) < limit
                         /\ ~Contains(sel, agent)
                      THEN Append(sel, agent) ELSE sel
         IN  AddPreferred(next, Tail(pref), limit)

\* for agent in workflow_agents: ... (lines 335-339)
RECURSIVE FillWorkflowAgents(_, _, _)
FillWorkflowAgents(sel, workflow_agents, limit) ==
    IF workflow_agents = << >> \/ Len(sel) >= limit THEN sel
    ELSE LET agent == Head(workflow_agents)
             next  == IF ~Contains(sel, agent) THEN Append(sel, agent) ELSE sel
         IN  FillWorkflowAgents(next, Tail(workflow_agents), limit)

\* iterating spec.preferred_agents raises TypeError when the caller passed None
SelectRaises(s) == ~s.preferred_is_list

\* the limit both loops compare len(selected_agents) with: spec.max_agents as given
SelectionLimit(s) == s.max_agents

_select_optimal_agents(s) ==
    FillWorkflowAgents(
        AddPreferred(s.required_agents, s.preferred_agents, SelectionLimit(s)),
        _get_workflow_appropriate_agents(s), SelectionLimit(s))

-----------------------------------------------------------------------------
(* Results and errors *)

NoError == [ kind |-> "", errors |-> << >> ]

NoResult ==
    [ returned |-> FALSE, success |-> FALSE, total_agents |-> 0,
      completed_agents |-> 0, failed_agents |-> 0, executions |-> << >>,
      error |-> NoError ]

\* no aggregate computed yet
NoAggregate ==
    [ successful_agents |-> 0, failed_agents |-> 0, issues |-> << >>,
      recommendations |-> << >> ]

-----------------------------------------------------------------------------
(* Validation *)

\* set(spec.required_agents) - set(self.config["available_agents"])
MissingAgents(s) ==
    { s.required_agents[i] : i \in 1..Len(s.required_agents) }
        \ { available_agents[i] : i \in 1..Len(available_agents) }

ErrUnknown(s)  == [ code |-> "Unknown agents required", missing |-> MissingAgents(s) ]
ErrTooMany     == [ code |-> "Too many agents requested", missing |-> {} ]
ErrProjectPath == [ code |-> "Project path is required", missing |-> {} ]

\* the errors list of _validate_workflow_spec without the project path test
ValidationErrorsNoPathCheck(s) ==
    (IF MissingAgents(s) # {} THEN << ErrUnknown(s) >> ELSE << >>)
    \o (IF s.max_agents > max_agents_per_workflow THEN << ErrTooMany >> ELSE << >>)

\* validation raising at the first violation found
ValidationErrorsFailFast(s) ==
    IF MissingAgents(s) # {} THEN << ErrUnknown(s) >>
    ELSE IF s.max_agents > max_agents_per_workflow THEN << ErrTooMany >>
    ELSE IF s.project_path = "" THEN << ErrProjectPath >>
    ELSE << >>

\* the errors list built by _validate_workflow_spec; it raises ValueError unless empty
ValidationErrors(s) ==
    (IF MissingAgents(s) # {} THEN << ErrUnknown(s) >> ELSE << >>)
    \o (IF s.max_agents > max_agents_per_workflow THEN << ErrTooMany >> ELSE << >>)
    \o (IF s.project_path = "" THEN << ErrProjectPath >> ELSE << >>)

\* ValueError(f"Workflow validation failed: {'; '.join(errors)}")
ValidationFailure(s) == [ kind |-> "ValueError", errors |-> ValidationErrors(s) ]

\* TypeError: 'NoneType' object is not iterable
NotIterable == [ kind |-> "TypeError", errors |-> << >> ]

-----------------------------------------------------------------------------
(* Planning *)

Phase(name, agents, duration) ==
    [ name |-> name, agents |-> agents, estimated_duration |-> duration ]

\* a plan that opens the implementation phase one capability too early
_create_execution_plan_from3(agents) ==
    << Phase("analysis",
             IF Len(agents) >= 3 THEN SubSeq(agents, 1, 3) ELSE agents, 300) >>
    \o (IF Len(agents) >= 3
        THEN << Phase("implementation", SubSeq(agents, 4, Len(agents)), 900) >>
        ELSE << >>)
    \o << Phase("validation", << "test-strategist", "code-quality-analyzer" >>, 300) >>

_create_execution_plan(agents) ==
    << Phase("analysis",
             IF Len(agents) >= 3 THEN SubSeq(agents, 1, 3) ELSE agents, 300) >>
    \o (IF Len(agents) > 3
        THEN << Phase("implementation", SubSeq(agents, 4, Len(agents)), 900) >>
        ELSE << >>)
    \o << Phase("validation", << "test-strategist", "code-quality-analyzer" >>, 300) >>

\* sum(phase["estimated_duration"] for phase in execution_plan["phases"])
RECURSIVE PlanEstimatedDuration(_)
PlanEstimatedDuration(phases) ==
    IF phases = << >> THEN 0
    ELSE Head(phases).estimated_duration + PlanEstimatedDuration(Tail(phases))

-----------------------------------------------------------------------------
(* Inputs *)

\* capability tags a caller names; "custom-agent" is not in the registry
InputTags == { "backend-developer", "test-strategist", "code-quality-analyzer",
               "custom-agent" }

WorkflowNames == { "feature-development", "bug-investigation", "code-refactoring" }

\* timeout: Optional[int] = None
NoTimeout == -1

MkSpec(name, path, maxA, dry, req, pref, isList) ==
    [ name |-> name, project_path |-> path, max_agents |-> maxA, dry_run |-> dry,
      required_agents |-> req, preferred_agents |-> pref,
      preferred_is_list |-> isList, timeout |-> NoTimeout,
      priority |-> "normal", dependencies |-> << >> ]

\* specifications that reach agent selection: those that pass validation
SelectionInputs ==
    { s \in { MkSpec(n, "./my-project", m, FALSE, r, p, TRUE) :
                n \in WorkflowNames, m \in 0..MaxAgentsArg,
                r \in SeqsUpTo(InputTags, MaxListLen),
                p \in SeqsUpTo(InputTags, MaxListLen) } :
        ValidationErrors(s) = << >> }

-----------------------------------------------------------------------------
(* Specification of agent selection alone *)

InitSelect ==
    /\ spec \in SelectionInputs
    /\ pc = "input"
    /\ selected = << >>
    /\ plan = << >>
    /\ phase_idx = 0
    /\ tasks = << >>
    /\ executions = << >>
    /\ now = 0
    /\ active_workflows = {}
    /\ result = NoResult
    /\ calls = {}
    /\ raised = NoError
    /\ raised_slots = {}
    /\ estimated_duration = 0
    /\ workflow_results = NoAggregate
    /\ workflow_calls = << >>
    /\ MonitorIdle

SelectAgents ==
    /\ pc = "input"
    /\ selected' = _select_optimal_agents(spec)
    /\ pc' = "selected"
    /\ calls' = calls \cup {"select"}
    /\ UNCHANGED <<spec, plan, phase_idx, tasks, executions, now,
                   active_workflows, result, raised, raised_slots>>
    /\ UNCHANGED <<estimated_duration, workflow_results, workflow_calls>>
    /\ MonitorUnchanged

NextSelect == SelectAgents

SpecSelect == InitSelect /\ [][NextSelect]_vars

-----------------------------------------------------------------------------
(* Dispatch: _execute_tasks_parallel and _execute_single_agent *)

\* tasks created last capability first for a critical workflow
CreateTasksByPriority(phase) ==
    [ i \in 1..Len(phase.agents) |->
        [ agent_type |-> IF spec.priority = "critical"
                         THEN phase.agents[Len(phase.agents) + 1 - i]
                         ELSE phase.agents[i],
          status |-> "pending",
          start_time |-> -1, end_time |-> -1, error |-> "" ] ]

\* asyncio.create_task(self._execute_single_agent(agent_type, spec, phase))
CreateTasks(phase) ==
    [ i \in 1..Len(phase.agents) |->
        [ agent_type |-> phase.agents[i], status |-> "pending",
          start_time |-> -1, end_time |-> -1, error |-> "" ] ]

Terminal(status) == status \in {"completed", "failed", "raised"}

\* asyncio.wait(..., return_when=FIRST_COMPLETED) in place of gather
GatherFirstCompleted(phase_tasks) ==
    phase_tasks = << >> \/ \E i \in 1..Len(phase_tasks) : Terminal(phase_tasks[i].status)

\* await asyncio.gather(*phase_tasks, return_exceptions=True) has returned
GatherDone(phase_tasks) ==
    \A i \in 1..Len(phase_tasks) : Terminal(phase_tasks[i].status)

\* invocations of the run that raised so far
Faults ==
    Cardinality({ i \in 1..Len(executions) : executions[i].status = "failed" })
    + Cardinality({ i \in 1..Len(tasks) : tasks[i].status \in {"failed", "raised"} })

\* the AgentExecution a task returned (lines 478-495 and 506-518)
ReturnedExecution(phase, task) ==
    [ agent_type |-> task.agent_type,
      task_id    |-> [ phase |-> phase.name, ordinal |-> -1 ],
      status     |-> task.status,
      start_time |-> task.start_time,
      end_time   |-> task.end_time,
      error      |-> task.error,
      has_result |-> task.status = "completed" ]

\* the AgentExecution built for an exception gather returned (lines 437-449)
FailedExecution(phase, i, task, clock) ==
    [ agent_type |-> phase.agents[i],
      task_id    |-> [ phase |-> phase.name, ordinal |-> i - 1 ],
      status     |-> "failed",
      start_time |-> clock,
      end_time   |-> clock,
      error      |-> task.error,
      has_result |-> FALSE ]

\* the results listed with the completed executions first
ProcessResultsCompletedFirst(phase, phase_results, clock) ==
    LET inOrder == [ i \in 1..Len(phase_results) |->
                       IF phase_results[i].status = "raised"
                       THEN FailedExecution(phase, i, phase_results[i], clock)
                       ELSE ReturnedExecution(phase, phase_results[i]) ]
    IN  SelectSeq(inOrder, LAMBDA e : e.status = "completed")
        \o SelectSeq(inOrder, LAMBDA e : e.status # "completed")

\* the results loop leaving at the first exception, as a raise would
ProcessResultsStopAtRaise(phase, phase_results, clock) ==
    LET raisedAt == { i \in 1..Len(phase_results) : phase_results[i].status = "raised" }
        upto     == IF raisedAt = {} THEN Len(phase_results)
                    ELSE (CHOOSE i \in raisedAt : \A j \in raisedAt : i <= j) - 1
    IN  [ i \in 1..upto |-> ReturnedExecution(phase, phase_results[i]) ]

\* for i, result in enumerate(phase_results): ... (lines 434-454)
ProcessResults(phase, phase_results, clock) ==
    [ i \in 1..Len(phase_results) |->
        IF phase_results[i].status = "raised"
        THEN FailedExecution(phase, i, phase_results[i], clock)
        ELSE ReturnedExecution(phase, phase_results[i]) ]

CountStatus(execs, status) ==
    Cardinality({ i \in 1..Len(execs) : execs[i].status = status })

\* the dict with success taken from the completed count
WorkflowDictSuccessIfAnyCompleted(execs) ==
    [ success          |-> CountStatus(execs, "completed") > 0,
      total_agents     |-> Len(execs),
      completed_agents |-> CountStatus(execs, "completed"),
      failed_agents    |-> CountStatus(execs, "failed"),
      executions       |-> execs ]

\* the dict returned by _execute_workflow (lines 291-304)
WorkflowDict(execs) ==
    [ success          |-> CountStatus(execs, "failed") = 0,
      total_agents     |-> Len(execs),
      completed_agents |-> CountStatus(execs, "completed"),
      failed_agents    |-> CountStatus(execs, "failed"),
      executions       |-> execs ]

\* the dict returned by the except branch of _execute_workflow (lines 308-318)
WorkflowErrorDict ==
    [ success |-> FALSE, total_agents |-> 0, completed_agents |-> 0,
      failed_agents |-> 0, executions |-> << >> ]

\* the dict returned by _plan_workflow_execution, read with result.get (lines 264-270)
PlanDict ==
    [ success |-> TRUE, total_agents |-> 0, completed_agents |-> 0,
      failed_agents |-> 0, executions |-> << >> ]

\* OrchestrationResult(...) of the try branch (lines 188-204): metadata has no error
OrchestrationResultOf(d) ==
    [ returned |-> TRUE, success |-> d.success, total_agents |-> d.total_agents,
      completed_agents |-> d.completed_agents, failed_agents |-> d.failed_agents,
      executions |-> d.executions, error |-> NoError ]

\* OrchestrationResult(...) of the except branch (lines 218-231)
FailureResult(e) ==
    [ returned |-> TRUE, success |-> FALSE, total_agents |-> 0,
      completed_agents |-> 0, failed_agents |-> 0, executions |-> << >>,
      error |-> e ]

\* the dry_run flag ignored
IsDryRunIgnored(s) == FALSE

\* if spec.dry_run (line 177)
IsDryRun(s) == s.dry_run

\* workflow_id, one call per orchestrator in this specification
workflow_id == "workflow_0"

-----------------------------------------------------------------------------
(* orchestrate_workflow, one action per stretch between suspension points *)

\* tags named in a whole call; "custom-agent" is not in the registry
CallTags == { "backend-developer", "custom-agent" }

CallInputs ==
    { MkSpec("bug-investigation", path, m, dry, r, p, TRUE) :
        path \in { "", "./my-project" },
        m \in { 0, 1, MaxAgentsCall, max_agents_per_workflow + 1 },
        dry \in BOOLEAN,
        r \in SeqsUpTo(CallTags, MaxListLenCall),
        p \in SeqsUpTo({ "test-strategist" }, MaxListLenCall) }
    \cup
    { MkSpec("code-refactoring", "./my-project", m, dry, << >>, << >>, isList) :
        m \in 0..MaxAgentsCall, dry \in BOOLEAN, isList \in BOOLEAN }
    \cup
    { [ MkSpec("bug-investigation", "./my-project", 2, FALSE, << >>, << >>, TRUE)
          EXCEPT !.timeout = CallTimeout ] }
    \cup
    { [ MkSpec("bug-investigation", "./my-project", 1, dry, << >>, << >>, TRUE)
          EXCEPT !.priority = pr, !.dependencies = d ] :
        dry \in BOOLEAN, pr \in { "low", "critical" },
        d \in { << >>, << << "test-strategist", "code-quality-analyzer" >> >> } }

Init ==
    /\ spec \in CallInputs
    /\ pc = "call"
    /\ selected = << >>
    /\ plan = << >>
    /\ phase_idx = 0
    /\ tasks = << >>
    /\ executions = << >>
    /\ now = 0
    /\ active_workflows = {}
    /\ result = NoResult
    /\ calls = {}
    /\ raised = NoError
    /\ raised_slots = {}
    /\ estimated_duration = 0
    /\ workflow_results = NoAggregate
    /\ workflow_calls = << >>
    /\ MonitorIdle

\* _validate_workflow_spec raises: the except branch returns the failure result
ValidationFails ==
    /\ pc = "call"
    /\ ValidationErrors(spec) # << >>
    /\ calls' = calls \cup {"validate"}
    /\ raised' = ValidationFailure(spec)
    /\ result' = FailureResult(ValidationFailure(spec))
    /\ pc' = "done"
    /\ UNCHANGED <<spec, selected, plan, phase_idx, tasks, executions, now,
                   active_workflows, raised_slots>>
    /\ UNCHANGED <<estimated_duration, workflow_results, workflow_calls>>
    /\ MonitorUnchanged

\* a dry run that plans on its own, without the validation phase
PlanWorkflowOwnPlan ==
    /\ pc = "call"
    /\ ValidationErrors(spec) = << >>
    /\ IsDryRun(spec)
    /\ IF SelectRaises(spec)
       THEN /\ calls' = calls \cup {"validate", "select"}
            /\ raised' = NotIterable
            /\ result' = FailureResult(NotIterable)
            /\ active_workflows' = active_workflows \cup {workflow_id}
            /\ UNCHANGED <<selected, plan, estimated_duration>>
       ELSE /\ calls' = calls \cup {"validate", "select", "plan"}
            /\ selected' = _select_optimal_agents(spec)
            /\ plan' = SubSeq(_create_execution_plan(selected'), 1,
                            Len(_create_execution_plan(selected')) - 1)
            /\ estimated_duration' = PlanEstimatedDuration(plan')
            /\ result' = OrchestrationResultOf(PlanDict)
            /\ active_workflows' = active_workflows \ {workflow_id}
            /\ UNCHANGED raised
    /\ pc' = "done"
    /\ UNCHANGED <<spec, phase_idx, tasks, executions, now, raised_slots>>
    /\ UNCHANGED <<workflow_results, workflow_calls>>
    /\ MonitorUnchanged

\* dry run: _plan_workflow_execution, then the result and the cleanup
PlanWorkflow ==
    /\ pc = "call"
    /\ ValidationErrors(spec) = << >>
    /\ IsDryRun(spec)
    /\ IF SelectRaises(spec)
       THEN /\ calls' = calls \cup {"validate", "select"}
            /\ raised' = NotIterable
            /\ result' = FailureResult(NotIterable)
            /\ active_workflows' = active_workflows \cup {workflow_id}
            /\ UNCHANGED <<selected, plan, estimated_duration>>
       ELSE /\ calls' = calls \cup {"validate", "select", "plan"}
            /\ selected' = _select_optimal_agents(spec)
            /\ plan' = _create_execution_plan(selected')
            /\ estimated_duration' = PlanEstimatedDuration(plan')
            /\ result' = OrchestrationResultOf(PlanDict)
            /\ active_workflows' = active_workflows \ {workflow_id}
            /\ UNCHANGED raised
    /\ pc' = "done"
    /\ UNCHANGED <<spec, phase_idx, tasks, executions, now, raised_slots>>
    /\ UNCHANGED <<workflow_results, workflow_calls>>
    /\ MonitorUnchanged

\* live run: _execute_workflow up to the first gather
StartWorkflow ==
    /\ pc = "call"
    /\ ValidationErrors(spec) = << >>
    /\ ~IsDryRun(spec)
    /\ IF SelectRaises(spec)
       THEN /\ calls' = calls \cup {"validate", "select"}
            /\ raised' = NotIterable
            /\ result' = OrchestrationResultOf(WorkflowErrorDict)
            /\ active_workflows' = active_workflows \ {workflow_id}
            /\ pc' = "done"
            /\ UNCHANGED <<selected, plan, phase_idx, tasks, estimated_duration>>
       ELSE /\ calls' = calls \cup {"validate", "select", "plan", "dispatch"}
            /\ selected' = _select_optimal_agents(spec)
            /\ plan' = _create_execution_plan(selected')
            /\ estimated_duration' = PlanEstimatedDuration(plan')
            /\ phase_idx' = 1
            /\ tasks' = CreateTasks(plan'[1])
            /\ active_workflows' = active_workflows \cup {workflow_id}
            /\ pc' = "gather"
            /\ UNCHANGED <<raised, result>>
    /\ UNCHANGED <<spec, executions, now, raised_slots>>
    /\ UNCHANGED <<workflow_results, workflow_calls>>
    /\ MonitorUnchanged

\* an invocation started whatever its place in the list
AgentStartsAnyOrder(i) ==
    /\ pc = "gather"
    /\ tasks[i].status = "pending"
    /\ tasks' = [tasks EXCEPT ![i].status = "running", ![i].start_time = now]
    /\ UNCHANGED <<spec, pc, selected, plan, phase_idx, executions, now,
                   active_workflows, result, calls, raised, raised_slots>>
    /\ UNCHANGED <<estimated_duration, workflow_results, workflow_calls>>
    /\ MonitorUnchanged

\* a task runs to its await: start_time = datetime.now() (lines 462-472)
AgentStarts(i) ==
    /\ pc = "gather"
    /\ tasks[i].status = "pending"
    /\ \A j \in 1..(i - 1) : tasks[j].status # "pending"
    /\ tasks' = [tasks EXCEPT ![i].status = "running", ![i].start_time = now]
    /\ UNCHANGED <<spec, pc, selected, plan, phase_idx, executions, now,
                   active_workflows, result, calls, raised, raised_slots>>
    /\ UNCHANGED <<estimated_duration, workflow_results, workflow_calls>>
    /\ MonitorUnchanged

\* the work returns: the COMPLETED execution (lines 475-498)
AgentCompletes(i) ==
    /\ pc = "gather"
    /\ tasks[i].status = "running"
    /\ now' = now + 1
    /\ tasks' = [tasks EXCEPT ![i].status = "completed", ![i].end_time = now']
    /\ UNCHANGED <<spec, pc, selected, plan, phase_idx, executions,
                   active_workflows, result, calls, raised, raised_slots>>
    /\ UNCHANGED <<estimated_duration, workflow_results, workflow_calls>>
    /\ MonitorUnchanged

\* a failed invocation put back in the queue to be tried again
AgentFailsRetried(i) ==
    /\ pc = "gather"
    /\ tasks[i].status = "running"
    /\ Faults < MaxFaults
    /\ now' = now + 1
    /\ tasks' = [tasks EXCEPT ![i].status = "pending", ![i].error = "boom"]
    /\ raised_slots' = raised_slots \cup { <<phase_idx, i>> }
    /\ UNCHANGED <<spec, pc, selected, plan, phase_idx, executions,
                   active_workflows, result, calls, raised>>
    /\ UNCHANGED <<estimated_duration, workflow_results, workflow_calls>>
    /\ MonitorUnchanged

\* the work raises inside the try: the FAILED execution (lines 500-518)
AgentFails(i) ==
    /\ pc = "gather"
    /\ tasks[i].status = "running"
    /\ Faults < MaxFaults
    /\ now' = now + 1
    /\ tasks' = [tasks EXCEPT ![i].status = "failed", ![i].end_time = now',
                              ![i].error = "boom"]
    /\ raised_slots' = raised_slots \cup { <<phase_idx, i>> }
    /\ UNCHANGED <<spec, pc, selected, plan, phase_idx, executions,
                   active_workflows, result, calls, raised>>
    /\ UNCHANGED <<estimated_duration, workflow_results, workflow_calls>>
    /\ MonitorUnchanged

\* an exception leaves the coroutine: gather returns it (return_exceptions=True)
AgentRaises(i) ==
    /\ pc = "gather"
    /\ tasks[i].status = "running"
    /\ Faults < MaxFaults
    /\ now' = now + 1
    /\ tasks' = [tasks EXCEPT ![i].status = "raised", ![i].error = "boom"]
    /\ raised_slots' = raised_slots \cup { <<phase_idx, i>> }
    /\ UNCHANGED <<spec, pc, selected, plan, phase_idx, executions,
                   active_workflows, result, calls, raised>>
    /\ UNCHANGED <<estimated_duration, workflow_results, workflow_calls>>
    /\ MonitorUnchanged

\* gather returns: the results are processed, then the next phase is started or,
\* after the last one, the result is assembled and the workflow removed
PhaseGathered ==
    /\ pc = "gather"
    /\ GatherDone(tasks)
    /\ executions' = executions \o ProcessResults(plan[phase_idx], tasks, now)
    /\ IF phase_idx < Len(plan)
       THEN /\ phase_idx' = phase_idx + 1
            /\ tasks' = CreateTasks(plan[phase_idx'])
            /\ UNCHANGED <<pc, result, active_workflows, calls>>
       ELSE /\ tasks' = << >>
            /\ calls' = calls \cup {"aggregate"}
            /\ result' = OrchestrationResultOf(WorkflowDict(executions'))
            /\ active_workflows' = active_workflows \ {workflow_id}
            /\ pc' = "done"
            /\ UNCHANGED phase_idx
    /\ UNCHANGED <<spec, selected, plan, now, raised, raised_slots>>
    /\ UNCHANGED <<estimated_duration, workflow_results, workflow_calls>>
    /\ MonitorUnchanged

Next ==
    \/ ValidationFails
    \/ PlanWorkflow
    \/ StartWorkflow
    \/ \E i \in 1..Len(tasks) : AgentStarts(i)
    \/ \E i \in 1..Len(tasks) : AgentCompletes(i)
    \/ \E i \in 1..Len(tasks) : AgentFails(i)
    \/ \E i \in 1..Len(tasks) : AgentRaises(i)
    \/ PhaseGathered

Spec == Init /\ [][Next]_vars

-----------------------------------------------------------------------------
(* Specification of validation alone *)

\* the state before any function has run
Idle ==
    /\ selected = << >>
    /\ plan = << >>
    /\ phase_idx = 0
    /\ tasks = << >>
    /\ executions = << >>
    /\ now = 0
    /\ active_workflows = {}
    /\ result = NoResult
    /\ calls = {}
    /\ raised = NoError
    /\ raised_slots = {}
    /\ estimated_duration = 0
    /\ workflow_results = NoAggregate
    /\ workflow_calls = << >>
    /\ MonitorIdle

\* required tags drawn for validation; two of them are not in the registry
ValidationTags == { "backend-developer", "custom-agent", "legacy-agent" }

\* project paths drawn: empty, whitespace only, and a real one
ProjectPaths == { "", "   ", "./my-project" }

ValidationInputs ==
    { MkSpec("feature-development", path, m, FALSE, r, << >>, TRUE) :
        path \in ProjectPaths,
        m \in { 0, MaxAgentsArg, max_agents_per_workflow, max_agents_per_workflow + 1 },
        r \in SeqsUpTo(ValidationTags, MaxListLen) }

InitValidate ==
    /\ spec \in ValidationInputs
    /\ pc = "input"
    /\ Idle

\* await self._validate_workflow_spec(spec): returns, or raises ValueError
ValidateSpec ==
    /\ pc = "input"
    /\ raised' = IF ValidationErrors(spec) # << >>
                 THEN ValidationFailure(spec) ELSE NoError
    /\ calls' = calls \cup {"validate"}
    /\ pc' = "validated"
    /\ UNCHANGED <<spec, selected, plan, phase_idx, tasks, executions, now,
                   active_workflows, result, raised_slots, estimated_duration,
                   workflow_results, workflow_calls>>
    /\ MonitorUnchanged

NextValidate == ValidateSpec

SpecValidate == InitValidate /\ [][NextValidate]_vars

-----------------------------------------------------------------------------
(* Specification of planning alone *)

\* registry tags a selected list is drawn from; two are the validation pair
PlanTags == { "backend-developer", "debugger", "test-strategist",
              "code-quality-analyzer" }

\* selection returns list(required_agents) when max_agents does not exceed its
\* length, so every list of registry tags is a possible selected list
InitPlan ==
    /\ spec = MkSpec("feature-development", "./my-project", 0, FALSE,
                     << >>, << >>, TRUE)
    /\ pc = "input"
    /\ selected \in SeqsUpTo(PlanTags, MaxPlanLen)
    /\ plan = << >>
    /\ phase_idx = 0
    /\ tasks = << >>
    /\ executions = << >>
    /\ now = 0
    /\ active_workflows = {}
    /\ result = NoResult
    /\ calls = {}
    /\ raised = NoError
    /\ raised_slots = {}
    /\ estimated_duration = 0
    /\ workflow_results = NoAggregate
    /\ workflow_calls = << >>
    /\ MonitorIdle

\* execution_plan = await self._create_execution_plan(spec, selected_agents)
CreatePlan ==
    /\ pc = "input"
    /\ plan' = _create_execution_plan(selected)
    /\ estimated_duration' = PlanEstimatedDuration(plan')
    /\ calls' = calls \cup {"plan"}
    /\ pc' = "planned"
    /\ UNCHANGED <<spec, selected, phase_idx, tasks, executions, now,
                   active_workflows, result, raised, raised_slots,
                   workflow_results, workflow_calls>>
    /\ MonitorUnchanged

NextPlan == CreatePlan

SpecPlan == InitPlan /\ [][NextPlan]_vars

-----------------------------------------------------------------------------
(* Specification of result aggregation alone *)

\* every order in which list(set(...)) can enumerate a set of strings
Orderings(S) ==
    { f \in [1..Cardinality(S) -> S] : \A i, j \in 1..Cardinality(S) :
                                          f[i] = f[j] => i = j }

\* a list without its repeated elements, each kept at its first position
RECURSIVE FirstSeenOrder(_)
FirstSeenOrder(list) ==
    IF list = << >> THEN << >>
    ELSE LET rest == FirstSeenOrder(SubSeq(list, 1, Len(list) - 1))
             last == list[Len(list)]
         IN IF \E i \in 1..Len(rest) : rest[i] = last THEN rest
            ELSE Append(rest, last)

\* results["recommendations"].extend(...) over completed executions with a result
RECURSIVE CollectRecommendations(_)
CollectRecommendations(execs) ==
    IF execs = << >> THEN << >>
    ELSE (IF Head(execs).status = "completed" /\ Head(execs).has_result
          THEN Head(execs).recommendations ELSE << >>)
         \o CollectRecommendations(Tail(execs))

\* results["issues"].append({agent, error}) for each FAILED execution
RECURSIVE CollectIssues(_)
CollectIssues(execs) ==
    IF execs = << >> THEN << >>
    ELSE (IF Head(execs).status = "failed"
          THEN << [ agent |-> Head(execs).agent_type, error |-> Head(execs).error ] >>
          ELSE << >>)
         \o CollectIssues(Tail(execs))

\* the number of executions whose status is st
RECURSIVE CountExecs(_, _)
CountExecs(execs, st) ==
    IF execs = << >> THEN 0
    ELSE (IF Head(execs).status = st THEN 1 ELSE 0) + CountExecs(Tail(execs), st)

\* the results _aggregate_results can return for a list of executions
_aggregate_results(execs) ==
    { [ successful_agents |-> CountExecs(execs, "completed"),
        failed_agents |-> CountExecs(execs, "failed"),
        issues |-> CollectIssues(execs),
        recommendations |-> recs ] :
        recs \in Orderings({ CollectRecommendations(execs)[i] :
                               i \in 1..Len(CollectRecommendations(execs)) }) }

\* recommendation lists an agent's result carries
RecommendationLists ==
    { << >>, << "r1", "r2" >>, << "r2", "r3" >>, << "r3", "r1" >>, << "r1", "r1" >> }

MkExecution(agent, st, err, hasResult, recs) ==
    [ agent_type |-> agent, status |-> st, error |-> err,
      has_result |-> hasResult, recommendations |-> recs ]

\* executions handed to the aggregator, of every terminal AgentStatus
AggregateExecutions ==
    { MkExecution("debugger", "completed", "", TRUE, recs) :
        recs \in RecommendationLists }
    \cup { MkExecution("debugger", "completed", "", FALSE, << >>) }
    \cup { MkExecution(agent, "failed", "boom", FALSE, << >>) :
             agent \in { "debugger", "test-strategist" } }
    \cup { MkExecution("test-strategist", "timeout", "deadline", FALSE, << >>) }

InitAggregate ==
    /\ spec = MkSpec("feature-development", "./my-project", 0, FALSE,
                     << >>, << >>, TRUE)
    /\ pc = "input"
    /\ executions \in SeqsUpTo(AggregateExecutions, MaxExecs)
    /\ selected = << >>
    /\ plan = << >>
    /\ phase_idx = 0
    /\ tasks = << >>
    /\ now = 0
    /\ active_workflows = {}
    /\ result = NoResult
    /\ calls = {}
    /\ raised = NoError
    /\ raised_slots = {}
    /\ estimated_duration = 0
    /\ workflow_results = NoAggregate
    /\ workflow_calls = << >>
    /\ MonitorIdle

\* workflow_results = await self._aggregate_results(executions)
Aggregate ==
    /\ pc = "input"
    /\ workflow_results' \in _aggregate_results(executions)
    /\ calls' = calls \cup {"aggregate"}
    /\ pc' = "aggregated"
    /\ UNCHANGED <<spec, selected, plan, phase_idx, tasks, executions, now,
                   active_workflows, result, raised, raised_slots,
                   estimated_duration, workflow_calls>>
    /\ MonitorUnchanged

NextAggregate == Aggregate

SpecAggregate == InitAggregate /\ [][NextAggregate]_vars

-----------------------------------------------------------------------------
(* Specification of workflow ids and the active-workflow table, for several
   orchestrate_workflow calls on one orchestrator. The clock now counts half
   seconds; a live call suspends in asyncio.gather, a dry-run call and the
   stretch from the id to the registration run without suspension. *)

TicksPerSecond == 2

\* f"workflow_{datetime.now().strftime('%Y%m%d_%H%M%S')}": the second, no finer
WorkflowIdAt(tick) == tick \div TicksPerSecond

\* a call that has not computed its id yet
NoWorkflowId == -1

\* self.active_workflows[id] = workflow_execution: replaces an entry of that key
Register(table, id, call) ==
    { entry \in table : entry.workflow_id # id }
    \cup { [ workflow_id |-> id, call |-> call ] }

\* if workflow_id in self.active_workflows: del self.active_workflows[workflow_id]
Cleanup(table, id) == { entry \in table : entry.workflow_id # id }

InitIds ==
    /\ spec = MkSpec("feature-development", "./my-project", 0, FALSE,
                     << >>, << >>, TRUE)
    /\ pc = "calls"
    /\ workflow_calls \in
         [ 1..MaxCalls -> { [ pc |-> "idle", dry_run |-> dry,
                              workflow_id |-> NoWorkflowId ] : dry \in BOOLEAN } ]
    /\ active_workflows = {}
    /\ now = 0
    /\ selected = << >>
    /\ plan = << >>
    /\ phase_idx = 0
    /\ tasks = << >>
    /\ executions = << >>
    /\ result = NoResult
    /\ calls = {}
    /\ raised = NoError
    /\ raised_slots = {}
    /\ estimated_duration = 0
    /\ workflow_results = NoAggregate
    /\ MonitorIdle

IdsUnchanged ==
    /\ UNCHANGED <<spec, pc, selected, plan, phase_idx, tasks, executions, result,
                calls, raised, raised_slots, estimated_duration, workflow_results>>
    /\ MonitorUnchanged

\* the wall clock advances
Tick ==
    /\ now < MaxTicks
    /\ now' = now + 1
    /\ UNCHANGED <<workflow_calls, active_workflows>>
    /\ IdsUnchanged

\* a live call: id, validation, registration, then it suspends in the dispatch
CallBegins(c) ==
    /\ workflow_calls[c].pc = "idle"
    /\ ~workflow_calls[c].dry_run
    /\ workflow_calls' = [workflow_calls EXCEPT ![c].pc = "running",
                                               ![c].workflow_id = WorkflowIdAt(now)]
    /\ active_workflows' = Register(active_workflows, WorkflowIdAt(now), c)
    /\ UNCHANGED now
    /\ IdsUnchanged

\* a live call resumes after its last phase, cleans up and returns
CallReturns(c) ==
    /\ workflow_calls[c].pc = "running"
    /\ workflow_calls' = [workflow_calls EXCEPT ![c].pc = "returned"]
    /\ active_workflows' = Cleanup(active_workflows, workflow_calls[c].workflow_id)
    /\ UNCHANGED now
    /\ IdsUnchanged

\* a dry-run call: id, registration, plan, cleanup and return in one stretch
DryRunCall(c) ==
    /\ workflow_calls[c].pc = "idle"
    /\ workflow_calls[c].dry_run
    /\ workflow_calls' = [workflow_calls EXCEPT ![c].pc = "returned",
                                               ![c].workflow_id = WorkflowIdAt(now)]
    /\ active_workflows' =
         Cleanup(Register(active_workflows, WorkflowIdAt(now), c), WorkflowIdAt(now))
    /\ UNCHANGED now
    /\ IdsUnchanged

NextIds ==
    \/ Tick
    \/ \E c \in 1..MaxCalls : CallBegins(c)
    \/ \E c \in 1..MaxCalls : CallReturns(c)
    \/ \E c \in 1..MaxCalls : DryRunCall(c)

SpecIds == InitIds /\ [][NextIds]_vars

-----------------------------------------------------------------------------
(* Specification of the HealthMonitor lifecycle: start_monitoring calls, the
   three loops each of them creates, stop_monitoring and cancellation. What a
   loop does between two tests of is_running touches metrics, health_checks and
   alerts only and is left to the specification of _run_health_checks. *)

\* an orchestrator that is not part of the behaviour
OrchestratorIdle ==
    /\ spec = MkSpec("feature-development", "./my-project", 0, FALSE,
                     << >>, << >>, TRUE)
    /\ selected = << >>
    /\ plan = << >>
    /\ phase_idx = 0
    /\ tasks = << >>
    /\ executions = << >>
    /\ active_workflows = {}
    /\ result = NoResult
    /\ calls = {}
    /\ raised = NoError
    /\ raised_slots = {}
    /\ estimated_duration = 0
    /\ workflow_results = NoAggregate
    /\ workflow_calls = << >>

OrchestratorUnchanged ==
    UNCHANGED <<spec, pc, selected, plan, phase_idx, tasks, executions,
                active_workflows, result, calls, raised, raised_slots,
                estimated_duration, workflow_results, workflow_calls>>

\* the coroutines start_monitoring wraps in tasks
Loops == { "_metrics_collection_loop", "_health_check_loop",
           "_alert_processing_loop" }

\* a loop: where it is and, while it sleeps, how many start_monitoring calls
\* had begun when it last tested is_running
LoopAt(state, seen) == [ state |-> state, seen |-> seen ]

\* start_monitoring calls that have begun
StartsBegun == { t \in 1..Len(monitor_tasks) : monitor_tasks[t].pc # "idle" }

InitMonitor ==
    /\ OrchestratorIdle
    /\ pc = "monitor"
    /\ now = 0
    /\ is_running = FALSE
    /\ monitor_tasks = [ t \in 1..MaxStarts |->
                           [ pc |-> "idle", loops |-> [ l \in Loops |-> LoopAt("none", 0) ] ] ]
    /\ health_checks = << >>
    /\ alerts = << >>
    /\ check_history = << >>

MonitorFrame ==
    /\ OrchestratorUnchanged
    /\ UNCHANGED <<now, health_checks, alerts, check_history>>

\* start_monitoring up to await asyncio.gather(*tasks), or its early return
StartMonitoring(t) ==
    /\ monitor_tasks[t].pc = "idle"
    /\ \A u \in 1..(t - 1) : monitor_tasks[u].pc # "idle"
    /\ IF is_running
       THEN /\ monitor_tasks' = [monitor_tasks EXCEPT ![t].pc = "ended"]
            /\ UNCHANGED is_running
       ELSE /\ is_running' = TRUE
            /\ monitor_tasks' =
                 [monitor_tasks EXCEPT ![t] =
                    [ pc |-> "gather", loops |-> [ l \in Loops |-> LoopAt("created", 0) ] ]]
    /\ MonitorFrame

\* while self.is_running: the test a loop makes when first run and on each wake
LoopTestsIsRunning(t, l) ==
    /\ monitor_tasks[t].pc = "gather"
    /\ monitor_tasks[t].loops[l].state \in { "created", "sleeping" }
    /\ monitor_tasks' =
         [monitor_tasks EXCEPT ![t].loops[l] =
            IF is_running THEN LoopAt("sleeping", Cardinality(StartsBegun))
            ELSE LoopAt("exited", 0)]
    /\ UNCHANGED is_running
    /\ MonitorFrame

\* gather returns once the three loops have returned; finally: is_running = False
GatherReturns(t) ==
    /\ monitor_tasks[t].pc = "gather"
    /\ \A l \in Loops : monitor_tasks[t].loops[l].state = "exited"
    /\ monitor_tasks' = [monitor_tasks EXCEPT ![t].pc = "ended"]
    /\ is_running' = FALSE
    /\ MonitorFrame

\* cancellation that leaves is_running as it is
StartCancelledNoFinally(t) ==
    /\ monitor_tasks[t].pc = "gather"
    /\ monitor_tasks' =
         [monitor_tasks EXCEPT ![t] =
            [ pc |-> "ended",
              loops |-> [ l \in Loops |->
                  IF monitor_tasks[t].loops[l].state = "exited"
                  THEN monitor_tasks[t].loops[l]
                  ELSE LoopAt("cancelled", 0) ] ]]
    /\ UNCHANGED is_running
    /\ MonitorFrame

\* start_task.cancel(): gather cancels the loops still running, CancelledError
\* passes except Exception, finally: is_running = False
StartCancelled(t) ==
    /\ monitor_tasks[t].pc = "gather"
    /\ monitor_tasks' =
         [monitor_tasks EXCEPT ![t] =
            [ pc |-> "ended",
              loops |-> [ l \in Loops |->
                  IF monitor_tasks[t].loops[l].state = "exited"
                  THEN monitor_tasks[t].loops[l]
                  ELSE LoopAt("cancelled", 0) ] ]]
    /\ is_running' = FALSE
    /\ MonitorFrame

\* stop_monitoring
StopMonitoring ==
    /\ is_running' = FALSE
    /\ UNCHANGED monitor_tasks
    /\ MonitorFrame

NextMonitor ==
    \/ \E t \in 1..MaxStarts : StartMonitoring(t)
    \/ \E t \in 1..MaxStarts : \E l \in Loops : LoopTestsIsRunning(t, l)
    \/ \E t \in 1..MaxStarts : GatherReturns(t)
    \/ \E t \in 1..MaxStarts : StartCancelled(t)
    \/ StopMonitoring

SpecMonitor == InitMonitor /\ [][NextMonitor]_vars

-----------------------------------------------------------------------------
(* Specification of _run_health_checks, called repeatedly on one HealthMonitor
   whose clock now counts seconds *)

\* last_run: Optional[datetime] = None
NoLastRun == -1

\* the checks of the monitor, in the order of the health_checks dict
CheckOrder == << "failing_check" >>

\* interval (seconds) a check is added with
CheckIntervals == { 0, 1, 2 }

\* what awaiting check_function() under wait_for can do
CheckOutcomes == { "True", "False", "timeout", "raise" }

\* HealthCheck(name, check_function, interval, timeout, enabled)
MkHealthCheck(interval, enabled) ==
    [ interval |-> interval, enabled |-> enabled, last_run |-> NoLastRun,
      last_result |-> "None", consecutive_failures |-> 0 ]

\* if check.last_run and (now - check.last_run).total_seconds() < check.interval
NotDue(check, t) ==
    check.last_run # NoLastRun /\ t - check.last_run < check.interval

\* what one pass does with a check: "disabled", "skipped", or the outcome
PassEntry(check, outcome, t) ==
    IF ~check.enabled THEN "disabled"
    ELSE IF NotDue(check, t) THEN "skipped"
    ELSE outcome

\* a pass that stamps last_run on a timeout or an error as well
RunCheckStampAlways(check, outcome, t) ==
    IF PassEntry(check, outcome, t) \in { "disabled", "skipped" } THEN check
    ELSE IF outcome = "True"
    THEN [check EXCEPT !.last_run = t, !.last_result = "True",
                       !.consecutive_failures = 0]
    ELSE IF outcome = "False"
    THEN [check EXCEPT !.last_run = t, !.last_result = "False",
                       !.consecutive_failures = @ + 1]
    ELSE [check EXCEPT !.last_run = t, !.consecutive_failures = @ + 1]

\* the body of the for loop of _run_health_checks for one check
RunCheck(check, outcome, t) ==
    IF PassEntry(check, outcome, t) \in { "disabled", "skipped" } THEN check
    ELSE IF outcome = "True"
    THEN [check EXCEPT !.last_run = t, !.last_result = "True",
                       !.consecutive_failures = 0]
    ELSE IF outcome = "False"
    THEN [check EXCEPT !.last_run = t, !.last_result = "False",
                       !.consecutive_failures = @ + 1]
    ELSE [check EXCEPT !.consecutive_failures = @ + 1]

\* f"health_check_{name}"
AlertId(name) == << "health_check", name >>

\* the alerts one pass creates, in the order of the checks
RECURSIVE NewAlerts(_, _, _, _)
NewAlerts(order, checks, outcomes, t) ==
    IF order = << >> THEN << >>
    ELSE LET n == Head(order) IN
         (IF /\ PassEntry(checks[n], outcomes[n], t) = "False"
             /\ RunCheck(checks[n], outcomes[n], t).consecutive_failures >= 3
          THEN << AlertId(n) >> ELSE << >>)
         \o NewAlerts(Tail(order), checks, outcomes, t)

CheckNames == { CheckOrder[i] : i \in 1..Len(CheckOrder) }

InitHealthChecks ==
    /\ OrchestratorIdle
    /\ pc = "health_checks"
    /\ now = 0
    /\ is_running = FALSE
    /\ monitor_tasks = << >>
    /\ health_checks \in [ CheckNames ->
                             { MkHealthCheck(i, e) : i \in CheckIntervals, e \in BOOLEAN } ]
    /\ alerts = << >>
    /\ check_history = [ n \in CheckNames |-> << >> ]

\* time passes between two passes
ClockAdvances ==
    /\ now < MaxClock
    /\ now' = now + 1
    /\ UNCHANGED <<is_running, monitor_tasks, health_checks, alerts, check_history>>
    /\ OrchestratorUnchanged

\* await self._run_health_checks()
RunHealthChecks ==
    /\ \A n \in CheckNames : Len(check_history[n]) < MaxPasses
    /\ \E outcomes \in [ CheckNames -> CheckOutcomes ] :
         /\ health_checks' =
              [ n \in CheckNames |-> RunCheck(health_checks[n], outcomes[n], now) ]
         /\ alerts' = alerts \o NewAlerts(CheckOrder, health_checks, outcomes, now)
         /\ check_history' =
              [ n \in CheckNames |->
                  Append(check_history[n],
                         PassEntry(health_checks[n], outcomes[n], now)) ]
    /\ UNCHANGED <<now, is_running, monitor_tasks>>
    /\ OrchestratorUnchanged

NextHealthChecks ==
    \/ ClockAdvances
    \/ RunHealthChecks

SpecHealthChecks == InitHealthChecks /\ [][NextHealthChecks]_vars

-----------------------------------------------------------------------------
(* Claims about a whole orchestrate_workflow call (specification Spec) *)

LiveRun == "dispatch" \in calls

\* number of the phase an execution belongs to (phase names are unique in a plan)
PhaseNo(e) == CHOOSE k \in 1..Len(plan) : plan[k].name = e.task_id.phase

ExecutionsOfPhase(k) == { i \in 1..Len(executions) : PhaseNo(executions[i]) = k }

\* phases whose results have been processed
ProcessedPhases ==
    IF ~LiveRun THEN {}
    ELSE IF pc = "done" THEN 1..Len(plan) ELSE 1..(phase_idx - 1)

\* position in executions of slot i of phase k
RECURSIVE SlotOffset(_)
SlotOffset(k) == IF k <= 1 THEN 0 ELSE SlotOffset(k - 1) + Len(plan[k - 1].agents)

TotalSlots == SlotOffset(Len(plan) + 1)

\* C1: phase barrier. When an invocation of phase N+1 has started, every
\* invocation of phase N is recorded in a terminal state, and no execution of
\* phase N+1 starts earlier than the latest end time of phase N's executions.
C1_PhaseBarrier ==
    /\ \A i \in 1..Len(tasks) :
         tasks[i].status # "pending" =>
           \A k \in 1..(phase_idx - 1) :
             /\ Cardinality(ExecutionsOfPhase(k)) = Len(plan[k].agents)
             /\ \A j \in ExecutionsOfPhase(k) :
                  /\ executions[j].status \in {"completed", "failed"}
                  /\ k = phase_idx - 1 =>
                       executions[j].end_time <= tasks[i].start_time
    /\ \A i, j \in 1..Len(executions) :
         PhaseNo(executions[j]) = PhaseNo(executions[i]) + 1 =>
           /\ executions[i].status \in {"completed", "failed"}
           /\ executions[i].end_time <= executions[j].start_time

\* a second-phase invocation is running after a first phase of two or more
\* invocations that ended at different times
C1_Witness ==
    /\ pc = "gather"
    /\ phase_idx = 2
    /\ \E i \in 1..Len(tasks) : tasks[i].status = "running"
    /\ \E i, j \in ExecutionsOfPhase(1) :
         executions[i].end_time < executions[j].end_time

\* C2: failure isolation. A raising invocation is recorded as a failed
\* execution carrying the exception message, its siblings are all recorded in
\* a terminal state, the run is never stuck or ended by the failure, and at the
\* end every slot of every phase of the plan has its execution.
C2_FailureIsolation ==
    /\ \A k \in ProcessedPhases :
         \A i \in 1..Len(plan[k].agents) :
           /\ SlotOffset(k) + i <= Len(executions)
           /\ LET e == executions[SlotOffset(k) + i]
              IN  /\ e.agent_type = plan[k].agents[i]
                  /\ e.task_id.phase = plan[k].name
                  /\ IF <<k, i>> \in raised_slots
                     THEN e.status = "failed" /\ e.error = "boom"
                     ELSE e.status = "completed" /\ e.error = ""
    /\ pc = "gather" => ENABLED Next
    /\ (pc = "done" /\ LiveRun) =>
         /\ raised = NoError
         /\ Len(executions) = TotalSlots
         /\ result.executions = executions
         /\ result.total_agents = TotalSlots

\* a finished run in which an invocation of the first phase raised, a sibling of
\* it completed, and the last phase ran
C2_Witness ==
    /\ pc = "done"
    /\ \E s \in raised_slots : s[1] = 1
    /\ \E i \in ExecutionsOfPhase(1) : executions[i].status = "completed"
    /\ Len(plan) = 3
    /\ ExecutionsOfPhase(3) # {}

\* C3 as claimed: success == (failed_agents == 0) in every returned result
C3_SuccessIffNoFailedAlways ==
    result.returned => (result.success <=> (result.failed_agents = 0))

\* C3, amended: a result returned by a call in which no exception was caught has
\* success == (failed_agents == 0); a result returned after a caught exception
\* (validation failure, internal error) has success false and failed_agents 0.
C3_SuccessPredicate ==
    result.returned =>
        IF raised = NoError
        THEN result.success <=> (result.failed_agents = 0)
        ELSE ~result.success /\ result.failed_agents = 0

\* a live run returned with a failed execution and success false
C3_Witness ==
    /\ result.returned
    /\ raised = NoError
    /\ result.failed_agents = 1
    /\ result.completed_agents >= 1
    /\ ~result.success

\* C4: dry-run purity. With dry_run set no invocation is ever created or
\* started, and the returned result has no executions.
C4_DryRunPurity ==
    spec.dry_run =>
        /\ tasks = << >>
        /\ executions = << >>
        /\ raised_slots = {}
        /\ now = 0
        /\ "dispatch" \notin calls
        /\ pc \in {"call", "done"}
        /\ result.returned => result.executions = << >>

\* a dry run of a valid specification returned its plan
C4_Witness ==
    /\ spec.dry_run
    /\ pc = "done"
    /\ result.success
    /\ "plan" \in calls
    /\ Len(plan) = 3

\* the specification violates a validation rule (stated from the rules, not
\* from the errors list)
SpecInvalid(s) ==
    \/ \E i \in 1..Len(s.required_agents) :
         ~Contains(available_agents, s.required_agents[i])
    \/ s.max_agents > 20
    \/ s.project_path = ""

\* C5: a specification that fails validation gets, in one step, a result with
\* success false that carries the validation error; nothing is selected,
\* planned or dispatched and no invocation is started.
C5_ValidationFailure ==
    SpecInvalid(spec) =>
        /\ pc \in {"call", "done"}
        /\ calls \subseteq {"validate"}
        /\ selected = << >> /\ plan = << >> /\ tasks = << >>
        /\ executions = << >> /\ now = 0
        /\ pc = "done" =>
             /\ result.returned
             /\ ~result.success
             /\ result.executions = << >>
             /\ result.error.kind = "ValueError"
             /\ result.error.errors # << >>
             /\ result.error = ValidationFailure(spec)

\* validation failed for two reasons at once and the failure result is returned
C5_Witness ==
    /\ pc = "done"
    /\ spec.project_path = ""
    /\ spec.required_agents = << "custom-agent" >>
    /\ result.returned
    /\ Len(result.error.errors) = 2

\* C6 as claimed: whenever an exception is raised inside the call, the call
\* returns a failure result (success false) that carries the exception message
C6_ExceptionBecomesFailureResult ==
    (pc = "done" /\ raised # NoError) =>
        /\ result.returned
        /\ ~result.success
        /\ result.error = raised

-----------------------------------------------------------------------------
(* Claims about agent selection (specification SpecSelect) *)

Range(list) == { list[i] : i \in 1..Len(list) }

\* the k-th smallest member of a set of indices
KthIndex(idx, k) == CHOOSE i \in idx : Cardinality({ j \in idx : j <= i }) = k

\* the first occurrences in list of the tags in allowed and not in excluded,
\* in the order of list
Candidates(list, allowed, excluded) ==
    LET idx == { i \in 1..Len(list) :
                   /\ list[i] \in allowed
                   /\ list[i] \notin excluded
                   /\ \A j \in 1..(i - 1) : list[j] # list[i] }
    IN  [ k \in 1..Cardinality(idx) |-> list[KthIndex(idx, k)] ]

Take(list, n) == SubSeq(list, 1, Min(Len(list), Max(n, 0)))

KnownWorkflowNames ==
    { "full-stack-setup", "feature-development", "bug-investigation",
      "performance-optimization", "security-hardening" }

DefaultListFor(s) ==
    IF s.name \in KnownWorkflowNames THEN _get_workflow_appropriate_agents(s)
    ELSE << "general-purpose", "backend-developer", "frontend-developer" >>

AllTags == Range(available_agents) \cup InputTags

\* required, then the allowed preferred tags, then the defaults, each tier cut
\* at the room the limit leaves
TieredSelection(s, allowedPreferred) ==
    LET req   == s.required_agents
        prefs == Take(Candidates(s.preferred_agents, allowedPreferred, Range(req)),
                      s.max_agents - Len(req))
        fill  == Take(Candidates(DefaultListFor(s), AllTags, Range(req \o prefs)),
                      s.max_agents - Len(req) - Len(prefs))
    IN  req \o prefs \o fill

IsExampleSpec(s) ==
    /\ s.required_agents = << "backend-developer" >>
    /\ s.preferred_agents = << "test-strategist", "code-quality-analyzer" >>
    /\ s.max_agents = 2

C8_SelectionNoDuplicates ==
    pc = "selected" =>
        \A i, j \in 1..Len(selected) : selected[i] = selected[j] => i = j

\* C9 as claimed: required, then the preferred tags not already present, then
\* the workflow defaults, up to the limit
C9_SelectionOrderAnyPreferred ==
    pc = "selected" => selected = TieredSelection(spec, AllTags)

\* C9, amended: the selected list is the required tags in the order given, then
\* the preferred tags that are in the registry and not already present, in
\* their order, until the limit max_agents is reached, then the workflow-type
\* default list (the generic list for an unrecognized name) skipping duplicates
\* until the limit is reached.
C9_SelectionOrder ==
    pc = "selected" =>
        /\ selected = TieredSelection(spec, Range(available_agents))
        /\ IsExampleSpec(spec) => selected = << "backend-developer", "test-strategist" >>

\* an unknown preferred tag is skipped, a known one kept, and the generic
\* defaults fill the rest
C9_Witness ==
    /\ pc = "selected"
    /\ spec.required_agents = << "backend-developer" >>
    /\ spec.preferred_agents = << "custom-agent", "test-strategist" >>
    /\ selected = << "backend-developer", "test-strategist",
                     "general-purpose", "frontend-developer" >>

\* C10 as claimed: with max_agents = 0 the limit is a positive default, so a
\* specification without required tags still gets preferred or default tags
C10_ZeroMeansAuto ==
    (pc = "selected" /\ spec.max_agents = 0 /\ spec.required_agents = << >>) =>
        /\ SelectionLimit(spec) > 0
        /\ selected # << >>

-----------------------------------------------------------------------------
(* Claims about validation (specification SpecValidate) *)

ErrorCodes(e) == { e.errors[i].code : i \in 1..Len(e.errors) }

UnknownRequired(s) ==
    { tag \in Range(s.required_agents) : ~Contains(available_agents, tag) }

\* the validation rules a specification violates
TriggeredViolations(s) ==
    (IF UnknownRequired(s) # {} THEN {"Unknown agents required"} ELSE {})
    \cup (IF s.max_agents > 20 THEN {"Too many agents requested"} ELSE {})
    \cup (IF s.project_path = "" THEN {"Project path is required"} ELSE {})

\* C11: validation completeness. Validation raises one error that reports every
\* triggered violation (unknown required tags, max_agents above the ceiling,
\* empty project path), each once, and the unknown-agents entry names every
\* required tag that is not in the registry.
C11_ValidationCompleteness ==
    pc = "validated" =>
        /\ ErrorCodes(raised) = TriggeredViolations(spec)
        /\ Len(raised.errors) = Cardinality(TriggeredViolations(spec))
        /\ (raised = NoError) <=> (TriggeredViolations(spec) = {})
        /\ raised # NoError => raised.kind = "ValueError"
        /\ \A i \in 1..Len(raised.errors) :
             raised.errors[i].code = "Unknown agents required" =>
               raised.errors[i].missing = UnknownRequired(spec)

\* all three rules are violated at once, with two unknown required tags
C11_Witness ==
    /\ pc = "validated"
    /\ Len(raised.errors) = 3
    /\ \E i \in 1..Len(raised.errors) :
         raised.errors[i].missing = { "custom-agent", "legacy-agent" }

IsBlank(path) == path \in { "", "   " }

\* C12 as claimed: a specification whose project path is empty or whitespace
\* only is rejected by validation
C12_BlankPathRejected ==
    (pc = "validated" /\ IsBlank(spec.project_path)) => raised # NoError

-----------------------------------------------------------------------------
(* Claims about planning (specification SpecPlan) *)

ValidationPhase ==
    [ name |-> "validation",
      agents |-> << "test-strategist", "code-quality-analyzer" >>,
      estimated_duration |-> 300 ]

\* C13: plan partition. The plan opens with "analysis" holding the first
\* min(3, n) selected capabilities (estimate 300); "implementation" with the
\* remaining ones (estimate 900) is present exactly when n > 3; the final phase
\* is "validation" with [test-strategist, code-quality-analyzer] (estimate 300);
\* the total estimate is the sum of the phase estimates, 1500 for five.
C13_PlanPartition ==
    pc = "planned" =>
        LET n == Len(selected) IN
        /\ Len(plan) = IF n > 3 THEN 3 ELSE 2
        /\ plan[1].name = "analysis"
        /\ plan[1].estimated_duration = 300
        /\ Len(plan[1].agents) = Min(3, n)
        /\ \A i \in 1..Min(3, n) : plan[1].agents[i] = selected[i]
        /\ n > 3 =>
             /\ plan[2].name = "implementation"
             /\ plan[2].estimated_duration = 900
             /\ Len(plan[2].agents) = n - 3
             /\ \A i \in 1..(n - 3) : plan[2].agents[i] = selected[3 + i]
        /\ plan[Len(plan)] = ValidationPhase
        /\ estimated_duration = 300 + (IF n > 3 THEN 900 ELSE 0) + 300
        /\ n = 5 => estimated_duration = 1500

\* five capabilities are planned: three phases, 1500 seconds
C13_Witness ==
    /\ pc = "planned"
    /\ Len(selected) = 5
    /\ Len(plan) = 3
    /\ Len(plan[2].agents) = 2
    /\ estimated_duration = 1500

\* C14 as claimed: in every execution plan a capability tag appears in at most
\* one phase
C14_TagInAtMostOnePhase ==
    pc = "planned" =>
        \A i, j \in 1..Len(plan) :
            i # j => Range(plan[i].agents) \cap Range(plan[j].agents) = {}

-----------------------------------------------------------------------------
(* Claims about deadlines and dry runs (specification Spec) *)

HasTimeout == spec.timeout # NoTimeout

\* C15 as claimed: with spec.timeout supplied, the dispatch never waits past
\* the deadline, and an execution that had not ended by the deadline is
\* recorded with status timeout
C15_TimeoutEnforced ==
    (HasTimeout /\ LiveRun) =>
        /\ pc = "gather" => now <= spec.timeout
        /\ \A i \in 1..Len(executions) :
             \/ executions[i].end_time <= spec.timeout
             \/ executions[i].status = "timeout"

-----------------------------------------------------------------------------
(* Claims about aggregation (specification SpecAggregate) *)

\* C16 as claimed: the aggregated recommendations are the recommendations of
\* the completed executions with duplicates removed, in first-seen order, the
\* same on every run
C16_RecommendationsFirstSeen ==
    pc = "aggregated" =>
        workflow_results.recommendations =
            FirstSeenOrder(CollectRecommendations(executions))

FailedOrTimedOut(execs) ==
    SelectSeq(execs, LAMBDA e : e.status \in { "failed", "timeout" })

-----------------------------------------------------------------------------
(* Claims about workflow ids (specification SpecIds) *)

Begun(c) == workflow_calls[c].pc # "idle"

\* C18 as claimed: two calls on one orchestrator never get the same
\* workflow_id, and a running call's entry in active_workflows is never
\* overwritten or removed by another call
C18_WorkflowIdsUnique ==
    pc = "calls" =>
        /\ \A c, d \in 1..Len(workflow_calls) :
             (c # d /\ Begun(c) /\ Begun(d)) =>
                workflow_calls[c].workflow_id # workflow_calls[d].workflow_id
        /\ \A c \in 1..Len(workflow_calls) :
             workflow_calls[c].pc = "running" =>
                [ workflow_id |-> workflow_calls[c].workflow_id, call |-> c ]
                    \in active_workflows

\* C19 as claimed: a valid dry run returns executions == [] and total_agents
\* equal to the number of capabilities selected for the spec
C19_DryRunTotalAgents ==
    (pc = "done" /\ spec.dry_run /\ raised = NoError) =>
        /\ result.executions = << >>
        /\ result.total_agents = Len(selected)

\* the phases planned for a selected list, described position by position
IsPartitionOf(phases, list) ==
    LET n == Len(list) IN
    /\ Len(phases) = IF n > 3 THEN 3 ELSE 2
    /\ phases[1].name = "analysis"
    /\ phases[1].agents = Take(list, 3)
    /\ n > 3 => /\ phases[2].name = "implementation"
                /\ phases[2].agents = SubSeq(list, 4, n)
    /\ phases[Len(phases)].name = "validation"
    /\ phases[Len(phases)].agents = << "test-strategist", "code-quality-analyzer" >>

\* C20: plan determinism. On the dry-run path and on the live path alike, the
\* plan is the partition of the selected list and the selected list is the
\* tiered selection of the spec's fields other than dry_run, so the plan and
\* its total estimate are the same function of the spec on both paths.
C20_PlanDeterminism ==
    "plan" \in calls =>
        /\ selected = TieredSelection([spec EXCEPT !.dry_run = FALSE],
                                      Range(available_agents))
        /\ IsPartitionOf(plan, selected)
        /\ estimated_duration = IF Len(selected) > 3 THEN 1500 ELSE 600
        /\ LiveRun => \A k \in 1..Len(executions) :
                         executions[k].task_id.phase \in
                            { plan[n].name : n \in 1..Len(plan) }

\* a live run has dispatched a three-phase plan for a spec whose dry run is
\* also among the calls made
C20_Witness ==
    /\ pc = "done"
    /\ LiveRun
    /\ "plan" \in calls
    /\ Len(plan) = 3
    /\ executions # << >>
    /\ [spec EXCEPT !.dry_run = TRUE] \in CallInputs

-----------------------------------------------------------------------------
(* Claims about the HealthMonitor lifecycle (specification SpecMonitor) *)

StartsInGather == { t \in 1..Len(monitor_tasks) : monitor_tasks[t].pc = "gather" }

\* C21: health-monitor lifecycle. is_running is false on a new monitor and
\* whenever no start_monitoring call is in progress (after the task has ended
\* by return or cancellation); a start_monitoring call that begins leaves
\* is_running true.
C21_MonitoringLifecycle ==
    /\ [](StartsInGather = {} => is_running = FALSE)
    /\ [][\A t \in 1..MaxStarts :
            (monitor_tasks[t].pc = "idle" /\ monitor_tasks'[t].pc # "idle")
               => is_running']_vars

\* started, stopped, the loops have seen is_running false and returned, and
\* the start_monitoring task has ended
C21_Witness ==
    /\ monitor_tasks # << >>
    /\ monitor_tasks[1].pc = "ended"
    /\ \A l \in Loops : monitor_tasks[1].loops[l].state = "exited"
    /\ is_running = FALSE

\* C28 as claimed: at most one copy of each monitoring loop is running; two
\* copies run when both have tested is_running since the latest
\* start_monitoring began and both went on
C28_SingleSetOfLoops ==
    \A l \in Loops :
        Cardinality({ t \in StartsInGather :
                        /\ monitor_tasks[t].loops[l].state = "sleeping"
                        /\ monitor_tasks[t].loops[l].seen = Cardinality(StartsBegun) }) <= 1

-----------------------------------------------------------------------------
(* Claims about _run_health_checks (specification SpecHealthChecks) *)

EntriesIn(history, kinds) == \A k \in 1..Len(history) : history[k] \in kinds

\* C26 as claimed: after three or more passes in succession over an enabled
\* check that returns False whenever it is invoked, consecutive_failures is at
\* least 3 and an alert health_check_<name> exists; a pass in which the check
\* returns True leaves consecutive_failures at 0
C26_ConsecutiveFailuresAlert ==
    pc = "health_checks" =>
        \A n \in DOMAIN health_checks :
            /\ ( /\ health_checks[n].enabled
                 /\ Len(check_history[n]) >= 3
                 /\ EntriesIn(check_history[n], { "False", "skipped" }) )
               => /\ health_checks[n].consecutive_failures >= 3
                  /\ \E a \in 1..Len(alerts) : alerts[a] = AlertId(n)
            /\ ( /\ check_history[n] # << >>
                 /\ check_history[n][Len(check_history[n])] = "True" )
               => health_checks[n].consecutive_failures = 0

LastEntry(history) == history[Len(history)]

\* a pass has just been made over check n
PassMade(n) == Len(check_history'[n]) = Len(check_history[n]) + 1

\* C29: timed-out or raising health checks. A pass in which an enabled check
\* times out or raises adds one to consecutive_failures, leaves last_run and
\* last_result as they were and creates no alert; the next pass attempts the
\* check again whatever its interval; an alert is created only by a pass in
\* which a check returned False and its consecutive_failures reached 3 or more.
C29_TimeoutOrErrorCountsOnly ==
    [][pc = "health_checks" =>
        \A n \in DOMAIN health_checks :
            /\ (PassMade(n) /\ LastEntry(check_history'[n]) \in { "timeout", "raise" })
               => /\ health_checks'[n].consecutive_failures =
                        health_checks[n].consecutive_failures + 1
                  /\ health_checks'[n].last_run = health_checks[n].last_run
                  /\ health_checks'[n].last_result = health_checks[n].last_result
                  /\ alerts' = alerts
            /\ ( /\ PassMade(n)
                 /\ check_history[n] # << >>
                 /\ LastEntry(check_history[n]) \in { "timeout", "raise" } )
               => LastEntry(check_history'[n]) # "skipped"
            /\ alerts' # alerts
               => \E m \in DOMAIN health_checks :
                     /\ PassMade(m)
                     /\ LastEntry(check_history'[m]) = "False"
                     /\ health_checks'[m].consecutive_failures >= 3]_vars

\* three passes in a row timed out or raised: three failures counted, the check
\* never stamped, no alert
C29_Witness ==
    /\ pc = "health_checks"
    /\ \E n \in DOMAIN health_checks :
         /\ Len(check_history[n]) >= 3
         /\ EntriesIn(check_history[n], { "timeout", "raise" })
         /\ \E k \in 1..Len(check_history[n]) : check_history[n][k] = "timeout"
         /\ health_checks[n].interval > 0
         /\ health_checks[n].consecutive_failures >= 3
         /\ health_checks[n].last_run = NoLastRun
    /\ alerts = << >>

-----------------------------------------------------------------------------
(* Claims about the invocations of a live run (specification Spec) *)

\* statuses an invocation ends in; "raised" is an invocation whose exception
\* gather returned, recorded as a failed AgentExecution
TerminalStatuses == { "completed", "failed", "timeout", "raised" }

\* the moves of one invocation the state machine allows
AllowedMove(from, to) ==
    \/ to = from
    \/ from = "pending" /\ to = "running"
    \/ from = "running" /\ to \in TerminalStatuses

\* C22: AgentExecution state machine. An invocation moves only pending ->
\* running -> terminal; a recorded execution never changes afterwards; there
\* are no retries: a finished live run has as many executions of each phase as
\* the phase has capability slots, also when some of them failed.
C22_ExecutionStateMachine ==
    /\ []((pc = "done" /\ LiveRun /\ "plan" \in calls) =>
            \A k \in 1..Len(plan) :
                Cardinality(ExecutionsOfPhase(k)) = Len(plan[k].agents))
    /\ [][/\ (pc = "gather" /\ pc' = "gather" /\ phase_idx' = phase_idx) =>
               /\ Len(tasks') = Len(tasks)
               /\ \A i \in 1..Len(tasks) :
                    AllowedMove(tasks[i].status, tasks'[i].status)
          /\ (pc = "gather" /\ phase_idx' # phase_idx) =>
               \A i \in 1..Len(tasks') : tasks'[i].status = "pending"
          /\ pc \in { "call", "gather", "done" } =>
               /\ Len(executions') >= Len(executions)
               /\ \A k \in 1..Len(executions) : executions'[k] = executions[k]
               /\ \A k \in 1..Len(executions') :
                    executions'[k].status \in TerminalStatuses]_vars

\* a finished live run in which an invocation failed and every slot has its
\* one execution
C22_Witness ==
    /\ pc = "done"
    /\ LiveRun
    /\ "plan" \in calls
    /\ \E k \in 1..Len(executions) : executions[k].status = "failed"
    /\ Len(executions) = TotalSlots
    /\ TotalSlots >= 3

Started(task) == task.status # "pending"

\* C23: within a phase the invocations start in the order of the phase's
\* capability list (whatever the order in which they finish), and every
\* invocation of an earlier phase has started before any of a later phase.
C23_StartOrder ==
    pc = "gather" =>
        /\ \A i, j \in 1..Len(tasks) :
             (i < j /\ Started(tasks[j])) =>
                /\ Started(tasks[i])
                /\ tasks[i].start_time <= tasks[j].start_time
        /\ \A i \in 1..Len(tasks) : tasks[i].agent_type = plan[phase_idx].agents[i]
        /\ \A k \in 1..Len(executions) :
             /\ PhaseNo(executions[k]) < phase_idx
             /\ \A i \in 1..Len(tasks) :
                  Started(tasks[i]) => executions[k].start_time <= tasks[i].start_time

\* the second invocation of a phase has finished while the first, started
\* before it, is still running, and an earlier phase is on record
C23_Witness ==
    /\ pc = "gather"
    /\ phase_idx > 1
    /\ executions # << >>
    /\ Len(tasks) >= 2
    /\ tasks[1].status = "running"
    /\ tasks[2].status = "completed"

\* C24 as claimed: once an orchestrate_workflow call has returned, whatever
\* its path, the orchestrator holds no entry for it in active_workflows
C24_NoStateSurvivesCall ==
    pc = "done" => active_workflows = {}

\* a spec with its advisory fields put back to their defaults
WithoutAdvisoryFields(s) == [s EXCEPT !.priority = "normal", !.dependencies = << >>]

HasAdvisoryFields(s) == s # WithoutAdvisoryFields(s)

\* C25: dependencies and priority do not influence scheduling. For a spec
\* with a priority or a dependencies mapping, the selected capabilities, the
\* phases and the order in which the invocations are created and recorded are
\* those of the same spec without them.
C25_AdvisoryFieldsIgnored ==
    (HasAdvisoryFields(spec) /\ "plan" \in calls) =>
        /\ selected = TieredSelection(WithoutAdvisoryFields(spec),
                                      Range(available_agents))
        /\ IsPartitionOf(plan, selected)
        /\ pc = "gather" =>
             /\ Len(tasks) = Len(plan[phase_idx].agents)
             /\ \A i \in 1..Len(tasks) :
                  tasks[i].agent_type = plan[phase_idx].agents[i]
        /\ \A k \in 1..Len(plan) : \A i \in 1..Len(plan[k].agents) :
             SlotOffset(k) + i <= Len(executions) =>
                executions[SlotOffset(k) + i].agent_type = plan[k].agents[i]

\* a finished live run of a critical workflow whose dependencies put the two
\* validation capabilities in reverse, and whose twin without them is a call too
C25_Witness ==
    /\ pc = "done"
    /\ LiveRun
    /\ spec.priority = "critical"
    /\ spec.dependencies # << >>
    /\ selected # << >>
    /\ Len(executions) = TotalSlots
    /\ executions[Len(executions)].agent_type = "code-quality-analyzer"
    /\ WithoutAdvisoryFields(spec) \in CallInputs

\* the capability slots of a plan, phase by phase
RECURSIVE SlotsOf(_)
SlotsOf(phases) ==
    IF phases = << >> THEN << >>
    ELSE [ i \in 1..Len(Head(phases).agents) |->
             [ phase |-> Head(phases).name, agent_type |-> Head(phases).agents[i] ] ]
         \o SlotsOf(Tail(phases))

\* C27: execution accounting. A live run that has dispatched its plan returns
\* exactly one AgentExecution per capability slot, in phase order and within a
\* phase in capability-list order whatever the completion order; total_agents
\* is the number of slots and completed_agents + failed_agents == total_agents.
C27_ExecutionAccounting ==
    (pc = "done" /\ LiveRun /\ "plan" \in calls) =>
        /\ result.total_agents = Len(SlotsOf(plan))
        /\ Len(result.executions) = Len(SlotsOf(plan))
        /\ \A k \in 1..Len(result.executions) :
             /\ result.executions[k].agent_type = SlotsOf(plan)[k].agent_type
             /\ result.executions[k].task_id.phase = SlotsOf(plan)[k].phase
        /\ result.completed_agents + result.failed_agents = result.total_agents

\* a finished live run of three phases in which a failed invocation is listed
\* before a completed one of its phase that ended earlier
C27_Witness ==
    /\ pc = "done"
    /\ LiveRun
    /\ Len(plan) = 3
    /\ \E i, j \in 1..Len(result.executions) :
         /\ i < j
         /\ result.executions[i].task_id.phase = result.executions[j].task_id.phase
         /\ result.executions[i].status = "failed"
         /\ result.executions[j].status = "completed"
         /\ result.executions[j].end_time < result.executions[i].end_time

-----------------------------------------------------------------------------
(* Claims about the capabilities selected and planned (specification
   SpecSelect) *)

\* every capability tag of every phase planned for a selected list
PlannedTags(list) ==
    UNION { Range(_create_execution_plan(list)[k].agents) :
              k \in 1..Len(_create_execution_plan(list)) }

\* C30: only known capabilities are dispatched. For a spec that passes
\* validation, every tag of every phase of the plan is in available_agents, as
\* is every tag of the default list of every workflow type; an unknown
\* preferred capability is skipped, not rejected.
C30_OnlyKnownCapabilities ==
    pc = "selected" =>
        /\ \A tag \in PlannedTags(selected) :
             \E i \in 1..Len(available_agents) : available_agents[i] = tag
        /\ \A n \in KnownWorkflowNames \cup { spec.name } :
             \A tag \in Range(_get_workflow_appropriate_agents([spec EXCEPT !.name = n])) :
                \E i \in 1..Len(available_agents) : available_agents[i] = tag
        /\ \A i \in 1..Len(spec.preferred_agents) :
             spec.preferred_agents[i] = "custom-agent" =>
                /\ raised = NoError
                /\ \A k \in 1..Len(selected) : selected[k] # "custom-agent"

\* an unknown preferred capability was named first, with room for it, and the
\* selection went on to known ones
C30_Witness ==
    /\ pc = "selected"
    /\ spec.preferred_agents # << >>
    /\ spec.preferred_agents[1] = "custom-agent"
    /\ spec.max_agents > Len(spec.required_agents) + 1
    /\ Len(selected) = spec.max_agents
    /\ raised = NoError

====
